---- MODULE Spec2Model ----
(***************************************************************************)
(* Verification model of MorphoDynamics:                                   *)
(*   - Functional.transform / Functional.inversetransform                  *)
(*     (FunctionalDefinition.py), checked under FSpec;                     *)
(*   - analyze_morphodynamics (Analysis.py), the per-frame orchestrator,   *)
(*     checked under Spec.                                                 *)
(* Arithmetic is exact (integers); floating-point rounding is not modelled.*)
(***************************************************************************)
EXTENDS Integers, Sequences, FiniteSets, TLC

VARIABLES
    \* ---- Functional (FunctionalDefinition.py) ----
    forig,      \* the array the run started from (raw or working)
    fval,       \* the current array
    fhist,      \* the changes of variable applied so far: "T" / "I"
    fp,         \* self.p, the start parameters the Functional was built with
    fcost,      \* the vector returned by the last call of Functional.f
    \* ---- analyze_morphodynamics (Analysis.py) ----
    dataK,      \* data.K
    paramI,     \* param.I
    paramJ,     \* param.J
    nsignal,    \* len(data.signalfile)
    showWindows,\* param.showWindows
    dataset,    \* which image sequence data holds
    pc,         \* position in analyze_morphodynamics
    k,          \* loop variable k
    m,          \* loop variable m of the channel loop
    x, c, s, s0, w, w0, t0, t,   \* locals of the frame loop
    res,        \* the result record (local of analyze_morphodynamics)
    ret,        \* what the caller receives
    err,        \* the exception that left analyze_morphodynamics, if any
    cand,       \* raw optimum of the last correspondence solve
    calls,      \* log of the component calls and array writes made so far
    \* ---- DeepPaintWidget (deep_paint_plugin/deep_paint.py) ----
    wmodel,     \* self.model: "None" or "vgg16"
    wforest,    \* self.random_forest: "None" or "forest"
    wfile,      \* what the model file on disk holds: "absent", "None", "forest"
    wlayers,    \* names of the label layers of the viewer
    wnsteps,    \* viewer.dims.nsteps[0], the number of frames
    wstep,      \* viewer.dims.current_step[0]
    wannot,     \* frames whose annotations layer holds a label > 0
    wpred,      \* per frame, whether the prediction layer was written
    wcalls      \* the calls of predict_image made: <<caller, model, forest>>

fvars == <<forig, fval, fhist, fp, fcost>>
cfgvars == <<dataK, paramI, paramJ, nsignal, showWindows, dataset>>
avars == <<cfgvars, pc, k, m,
           x, c, s, s0, w, w0, t0, t, res, ret, err, cand, calls>>
wvars == <<wmodel, wforest, wfile, wlayers, wnsteps, wstep, wannot, wpred, wcalls>>
vars == <<fvars, avars, wvars>>

(***************************************************************************)
(* Bounds of the model                                                     *)
(***************************************************************************)
MaxN == 3       \* longest raw parameter array
MaxVal == 1     \* parameter values range over -MaxVal..MaxVal
MaxOps == 2     \* number of changes of variable applied in a run

(***************************************************************************)
(* Functional.transform, Functional.inversetransform                       *)
(* Python index i (0-based) is index i+1 here.                             *)
(***************************************************************************)
transformNoDiff(o) ==
    LET n == Len(o) IN
    [i \in 1..(n+1) |-> IF i <= n THEN o[i] ELSE o[1] - o[n]]

transform(o) ==
    LET n == Len(o) IN
    [i \in 1..(n+1) |->
        IF i = 1 THEN o[1]
        ELSE IF i <= n THEN o[i] - o[i-1]
        ELSE o[1] - o[n]]

RECURSIVE cumul(_, _)
\* o[0..i-1] of inversetransform: o[0] = r[0], o[j] = r[j] + o[j-1]
cumul(r, i) ==
    IF i = 1 THEN <<r[1]>>
    ELSE LET p == cumul(r, i-1) IN Append(p, r[i] + p[i-1])

inversetransformNoSum(r) ==
    LET n == Len(r) - 1 IN [i \in 1..n |-> r[i]]

inversetransform(r) ==
    LET n == Len(r) - 1 IN cumul(r, n)

\* the widget does not exist
WInitIdle ==
    /\ wmodel = "None" /\ wforest = "None" /\ wfile = "absent"
    /\ wlayers = {} /\ wnsteps = 0 /\ wstep = 0 /\ wannot = {}
    /\ wpred = <<>> /\ wcalls = {}

Vals == (-MaxVal)..MaxVal
Arrays(lo, hi) == UNION {[1..n -> Vals] : n \in lo..hi}

AInitIdle ==
    /\ dataK = 0 /\ paramI = 0 /\ paramJ = 0 /\ nsignal = 0 /\ dataset = 0
    /\ showWindows = FALSE /\ pc = "idle" /\ k = 0 /\ m = 0
    /\ x = <<>> /\ c = <<>> /\ s = <<>> /\ s0 = <<>> /\ w = <<>> /\ w0 = <<>>
    /\ t0 = <<>> /\ t = <<>> /\ res = <<>> /\ ret = <<>> /\ err = <<>>
    /\ cand = <<>> /\ calls = <<>>

FInit ==
    /\ forig \in Arrays(1, MaxN + 1)
    /\ fval = forig
    /\ fhist = <<>>
    /\ fp = <<>> /\ fcost = <<>>
    /\ AInitIdle
    /\ WInitIdle

\* r = functional.transform(o); len(o) >= 1 (o[0] is read)
Transform ==
    /\ Len(fhist) < MaxOps
    /\ Len(fval) >= 1
    /\ fval' = transform(fval)
    /\ fhist' = Append(fhist, "T")
    /\ UNCHANGED <<forig, fp, fcost, avars, wvars>>

\* o = functional.inversetransform(r); len(r) >= 2 (o[0] is written)
InverseTransform ==
    /\ Len(fhist) < MaxOps
    /\ Len(fval) >= 2
    /\ fval' = inversetransform(fval)
    /\ fhist' = Append(fhist, "I")
    /\ UNCHANGED <<forig, fp, fcost, avars, wvars>>

FNext == Transform \/ InverseTransform

FSpec == FInit /\ [][FNext]_vars

(***************************************************************************)
(* Functional.f (checked under CSpec)                                      *)
(*                                                                         *)
(* A residual is the term <<kind, index, a, b>>:                           *)
(*   <<"geom", axis, o, p>>  splev(mod(o, 1), tck2)[axis]                  *)
(*                             - splev(mod(p, 1), tck1)[axis]              *)
(*   <<"reg", i, num, den>>  sqrt(w) * num / den, spacing i (Python i)     *)
(*   <<"wrap", 0, num, den>> sqrt(w) * num / den, the wrap segment         *)
(* and <<>> is a slot of np.zeros that was never written.                  *)
(***************************************************************************)
MaxP == 3       \* longest start parameter array self.p

\* line 38: np.concatenate(splev(o)) - np.concatenate(splev(p)): the n x
\* differences, then the n y differences
geometric(o, p, j) ==
    LET n == Len(o) IN
    IF j <= n THEN <<"geom", 0, o[j], p[j]>>
    ELSE <<"geom", 1, o[j - n], p[j - n]>>

\* line 40, Python i in 1..n-1: (o[i]-o[i-1]) / (p[i]-p[i-1])
regularization(o, p, i) == <<"reg", i, o[i + 1] - o[i], p[i + 1] - p[i]>>

\* line 42: (1+o[0]-o[n-1]) / (1+p[0]-p[n-1])
wrapsegment(o, p) ==
    LET n == Len(o) IN <<"wrap", 0, 1 + o[1] - o[n], 1 + p[1] - p[n]>>

\* the loop of line 39 stopping one spacing early
fShortLoop(r, p) ==
    LET o == inversetransform(r)
        n == Len(o)
    IN [j \in 1..(3 * n) |->
          IF j <= 2 * n THEN geometric(o, p, j)
          ELSE IF j < 3 * n - 1 THEN regularization(o, p, j - 2 * n)
          ELSE IF j = 3 * n THEN wrapsegment(o, p)
          ELSE <<>>]

\* lines 35-44: f = np.zeros((3*n,)); f[0:2*n] = ...;
\* f[i+2*n-1] = ... for i in range(1, n); f[3*n-1] = ...
\* (Python slot j-1 is slot j here)
f(r, p) ==
    LET o == inversetransform(r)
        n == Len(o)
    IN [j \in 1..(3 * n) |->
          IF j <= 2 * n THEN geometric(o, p, j)
          ELSE IF j \in (2 * n + 1)..(3 * n - 1) THEN regularization(o, p, j - 2 * n)
          ELSE IF j = 3 * n THEN wrapsegment(o, p)
          ELSE <<>>]

\* start parameters are increasing (line 60 of Analysis.py builds them so)
IncArrays(n) == {q \in [1..n -> 0..n] : \A i \in 1..(n - 1) : q[i] < q[i + 1]}

\* a Functional built with p of length n and a working array of length n+1
CInit ==
    /\ forig \in Arrays(2, MaxP + 1)
    /\ fval = forig
    /\ fhist = <<>>
    /\ fp \in IncArrays(Len(forig) - 1)
    /\ fcost = <<>>
    /\ AInitIdle
    /\ WInitIdle

\* cost = functional.f(r)
EvalF ==
    /\ fcost = <<>>
    /\ fcost' = f(fval, fp)
    /\ UNCHANGED <<forig, fval, fhist, fp, avars, wvars>>

CNext == EvalF

CSpec == CInit /\ [][CNext]_vars

(***************************************************************************)
(* analyze_morphodynamics (Analysis.py)                                    *)
(*                                                                         *)
(* The components it calls (segment, fit_spline, compute_length,           *)
(* compute_area, find_origin, map_contours2, rasterize_curve,              *)
(* create_windows, extract_signals, the frame loaders) are opaque: the     *)
(* value a component returns is the term <<name, arguments>>, and each     *)
(* may raise.                                                              *)
(* Curve parameters and origins are integers in ticks of 1/(2*I), so that  *)
(* 0.5/I is 1 tick, linspace(0, 1, I, endpoint=False)[i] is 2*i ticks and  *)
(* one period is 2*I ticks.                                                *)
(***************************************************************************)
MaxK == 3        \* largest number of frames data.K
MaxI == 2        \* largest angular resolution param.I
MaxJ == 1        \* largest radial resolution param.J
MaxChan == 1     \* largest number of signal channels
MaxContent == 2  \* number of distinct image sequences data can hold
MaxShift == 1    \* largest origin shift find_origin reports, in ticks

Zero == <<>>     \* an entry of a np.zeros array that was never written
NoValue == <<>>  \* a local that is not bound yet

Contents == 1..MaxContent
Shifts == {0, MaxShift}

\* names bound to nothing before line 18
EmptyRes ==
    [spline |-> <<>>, param0 |-> <<>>, param |-> <<>>, displacement |-> <<>>,
     mean |-> <<>>, var |-> <<>>, length |-> <<>>, area |-> <<>>, orig |-> <<>>]

\* lines 22-32: res = Struct(); ...; res.orig = np.zeros((data.K,))
AllocRes ==
    [spline |-> <<>>, param0 |-> <<>>, param |-> <<>>,
     displacement |-> [j \in 1..(dataK - 1) |-> Zero],
     mean |-> [j \in 1..dataK |-> [mm \in 1..nsignal |-> Zero]],
     var |-> [j \in 1..dataK |-> [mm \in 1..nsignal |-> Zero]],
     length |-> [j \in 1..dataK |-> Zero],
     area |-> [j \in 1..dataK |-> Zero],
     orig |-> [j \in 1..dataK |-> 0]]

\* np.zeros raises ValueError on a negative dimension (lines 27-32)
AllocFailsNoK == paramI < 0 \/ paramJ < 0

AllocFails == dataK - 1 < 0 \/ paramI < 0 \/ paramJ < 0

\* for k in range(0, data.K): position after the loop variable became kk
ForNext(kk) == IF kk < dataK THEN "load" ELSE "close"

Log(fn, args) == Append(calls, [fn |-> fn, k |-> k, args |-> args])

\* an exception raised inside analyze_morphodynamics meets no handler
\* (there is no try statement in lines 16-109): it leaves the function,
\* the local res is dropped and the caller receives no value
RaiseSkipFrame(kind) ==
    /\ pc' = ForNext(k + 1)
    /\ k' = k + 1
    /\ UNCHANGED <<cfgvars, m,
                   x, c, s, s0, w, w0, t0, t, res, ret, err, cand, calls, fvars, wvars>>

RaiseReturnPartial(kind) ==
    /\ pc' = "aborted"
    /\ err' = <<[kind |-> kind, k |-> k, at |-> pc]>>
    /\ ret' = <<res>>
    /\ UNCHANGED <<cfgvars, k, m,
                   x, c, s, s0, w, w0, t0, t, res, cand, calls, fvars, wvars>>

Raise(kind) ==
    /\ pc' = "aborted"
    /\ err' = <<[kind |-> kind, k |-> k, at |-> pc]>>
    /\ UNCHANGED <<cfgvars, k, m,
                   x, c, s, s0, w, w0, t0, t, res, ret, cand, calls, fvars, wvars>>

Init ==
    /\ dataK \in 0..MaxK
    /\ paramI \in (-1)..MaxI
    /\ paramJ \in {-1, 0, MaxJ}
    /\ nsignal \in {0, MaxChan}
    /\ showWindows \in BOOLEAN
    /\ dataset \in Contents
    /\ pc = "alloc" /\ k = 0 /\ m = 0
    /\ x = NoValue /\ c = NoValue /\ s = NoValue /\ s0 = NoValue
    /\ w = NoValue /\ w0 = NoValue /\ t0 = NoValue /\ t = NoValue
    /\ res = EmptyRes /\ ret = <<>> /\ err = <<>> /\ cand = <<>>
    /\ calls = <<>>
    /\ forig = <<>> /\ fval = <<>> /\ fhist = <<>>
    /\ fp = <<>> /\ fcost = <<>>
    /\ WInitIdle

\* lines 18-43: open the artifacts, allocate res, enter the loop
Alloc ==
    /\ pc = "alloc"
    /\ \/ /\ AllocFails
          /\ Raise("ValueError")
       \/ /\ ~AllocFails
          /\ res' = AllocRes
          /\ pc' = ForNext(0)
          /\ UNCHANGED <<cfgvars, k, m,
                         x, c, s, s0, w, w0, t0, t, ret, err, cand, calls, fvars, wvars>>

\* data.load_frame_morpho(kk): frame kk of the sequence data holds
load_frame_morpho(kk) == <<"image", kk, dataset>>

\* line 43: x = data.load_frame_morpho(k)
LoadFrame ==
    /\ pc = "load"
    /\ \/ Raise("ShapeMismatchError")
       \/ /\ x' = load_frame_morpho(k)
          /\ calls' = Log("load_frame_morpho", <<k>>)
          /\ pc' = "segment"
          /\ UNCHANGED <<cfgvars, k, m,
                         c, s, s0, w, w0, t0, t, res, ret, err, cand, fvars, wvars>>

\* lines 45-49: c = segment(x, param.sigma, T, tw_seg), either branch
Segment ==
    /\ pc = "segment"
    /\ \/ Raise("SegmentationError")
       \/ /\ c' = <<"contour", x>>
          /\ calls' = Log("segment", <<x>>)
          /\ pc' = "fit"
          /\ UNCHANGED <<cfgvars, k, m,
                         x, s, s0, w, w0, t0, t, res, ret, err, cand, fvars, wvars>>

\* line 50: s = fit_spline(c, param.lambda_)
FitSpline ==
    /\ pc = "fit"
    /\ \/ Raise("InsufficientContourError")
       \/ /\ s' = <<"spline", c>>
          /\ calls' = Log("fit_spline", <<c>>)
          /\ pc' = "length"
          /\ UNCHANGED <<cfgvars, k, m,
                         x, c, s0, w, w0, t0, t, res, ret, err, cand, fvars, wvars>>

\* line 51: res.length[k] = compute_length(s)
ComputeLength ==
    /\ pc = "length"
    /\ \/ Raise("ValueError")
       \/ /\ res' = [res EXCEPT !.length[k + 1] = <<"length", s>>]
          /\ pc' = "area"
          /\ UNCHANGED <<cfgvars, k, m,
                         x, c, s, s0, w, w0, t0, t, ret, err, cand, calls, fvars, wvars>>

\* lines 52-53: res.area[k] = compute_area(s); if 0 < k:
ComputeArea ==
    /\ pc = "area"
    /\ \/ Raise("ValueError")
       \/ /\ res' = [res EXCEPT !.area[k + 1] = <<"area", s>>]
          /\ pc' = IF 0 < k THEN "origin" ELSE "raster"
          /\ UNCHANGED <<cfgvars, k, m,
                         x, c, s, s0, w, w0, t0, t, ret, err, cand, calls, fvars, wvars>>

\* line 59: the seed res.orig[k-1] passed to find_origin
OriginSeed == res.orig[k]

\* line 59: the slot res.orig[k] the result is stored in
OrigSlotPrev == k

OrigSlot == k + 1

\* find_origin(s0, s, seed): the seed moved by the shift it estimated
find_origin(prev, cur, seed, shift) == seed + shift

\* line 59: res.orig[k] = find_origin(s0, s, res.orig[k-1])
FindOrigin ==
    /\ pc = "origin"
    /\ \/ Raise("CorrespondenceError")
       \/ \E d \in Shifts :
          /\ res' = [res EXCEPT !.orig[OrigSlot] = find_origin(s0, s, OriginSeed, d)]
          /\ calls' = Log("find_origin", <<s0, s, OriginSeed>>)
          /\ pc' = "params"
          /\ UNCHANGED <<cfgvars, k, m,
                         x, c, s, s0, w, w0, t0, t, ret, err, cand, fvars, wvars>>

\* origin + 0.5 / param.I + np.linspace(0, 1, param.I, endpoint=False)
ParamsAt(origin) == [i \in 1..paramI |-> origin + 1 + 2 * (i - 1)]

\* line 60: t0 is built from res.orig[k-1]
T0Origin == res.orig[k]

\* line 61: the initial t is built from res.orig[k]
TOrigin == res.orig[k + 1]

\* lines 60-61; 0.5 / param.I raises ZeroDivisionError when param.I is 0
StartParams ==
    /\ pc = "params"
    /\ \/ /\ paramI = 0
          /\ Raise("ZeroDivisionError")
       \/ /\ paramI # 0
          /\ t0' = ParamsAt(T0Origin)
          /\ t' = ParamsAt(TOrigin)
          /\ pc' = "solve"
          /\ UNCHANGED <<cfgvars, k, m,
                         x, c, s, s0, w, w0, res, ret, err, cand, calls, fvars, wvars>>

\* an end ParameterSet keeps the cyclic order of the start ParameterSet
\* (increasing, one period long) iff it is strictly increasing and spans
\* less than one period of 2*I ticks
CyclicOrderPreserved(tt) ==
    /\ \A i \in 1..(Len(tt) - 1) : tt[i] < tt[i + 1]
    /\ Len(tt) >= 1 => tt[Len(tt)] - tt[1] < 2 * Len(tt)

\* the optima the least-squares solve can stop at: each end parameter
\* either stays at its initial value or moves one bin (2 ticks) forward
Candidates(tinit) ==
    {[i \in 1..Len(tinit) |-> tinit[i] + d[i]] : d \in [1..Len(tinit) -> {0, 2}]}

\* map_contours2(s0, s, t0, t): the optimum found; a solve that did not
\* converge, or whose optimum breaks the cyclic order, raises
\* CorrespondenceError instead of returning
map_contours2(prev, cur, tstart, tinit) ==
    {[k |-> k, raw |-> cd, converged |-> cv,
      raised |-> ~cv \/ ~CyclicOrderPreserved(cd)] :
        cd \in Candidates(tinit), cv \in BOOLEAN}

\* line 62, the call: map_contours2(s0, s, t0, t) runs
MapContours2 ==
    /\ pc = "solve"
    /\ \E out \in map_contours2(s0, s, t0, t) :
          /\ cand' = <<out>>
          /\ calls' = Log("map_contours2", <<s0, s, t0, t>>)
          /\ pc' = "solved"
          /\ UNCHANGED <<cfgvars, k, m,
                         x, c, s, s0, w, w0, t0, t, res, ret, err, fvars, wvars>>

\* line 62, the assignment: t = <the value returned>, unless the call raised
AssignTIgnoreRaise ==
    /\ pc = "solved"
    /\ t' = cand[1].raw
    /\ pc' = "raster"
    /\ UNCHANGED <<cfgvars, k, m,
                   x, c, s, s0, w, w0, t0, res, ret, err, cand, calls, fvars, wvars>>

AssignT ==
    /\ pc = "solved"
    /\ \/ /\ cand[1].raised
          /\ Raise("CorrespondenceError")
       \/ /\ ~cand[1].raised
          /\ t' = cand[1].raw
          /\ pc' = "raster"
          /\ UNCHANGED <<cfgvars, k, m,
                         x, c, s, s0, w, w0, t0, res, ret, err, cand, calls, fvars, wvars>>

\* line 64: c = rasterize_curve(x.shape, s, res.orig[k])
RasterizeCurve ==
    /\ pc = "raster"
    /\ \/ Raise("WindowingError")
       \/ /\ c' = <<"raster", s, res.orig[k + 1]>>
          /\ calls' = Log("rasterize_curve", <<s, res.orig[k + 1]>>)
          /\ pc' = "windows"
          /\ UNCHANGED <<cfgvars, k, m,
                         x, s, s0, w, w0, t0, t, res, ret, err, cand, fvars, wvars>>

\* line 69: w = create_windows(c, param.I, param.J); line 70 starts the
\* channel loop
CreateWindows ==
    /\ pc = "windows"
    /\ \/ Raise("WindowingError")
       \/ /\ w' = <<"windows", c>>
          /\ calls' = Log("create_windows", <<c>>)
          /\ m' = 0
          /\ pc' = "signals"
          /\ UNCHANGED <<cfgvars, k,
                         x, c, s, s0, w0, t0, t, res, ret, err, cand, fvars, wvars>>

\* position after the displacement block (line 80: if param.showWindows)
AfterProject == IF showWindows THEN "artifact" ELSE "keep"

\* lines 70-71: for m in range(len(data.signalfile)):
\*     res.mean[m, :, :, k], res.var[m, :, :, k] = extract_signals(...)
\* line 74: if 0 < k
ExtractSignals ==
    /\ pc = "signals"
    /\ \/ /\ m < nsignal
          /\ \/ Raise("ShapeMismatchError")
             \/ /\ res' = [res EXCEPT !.mean[k + 1][m + 1] = <<"mean", m, k, w>>,
                                      !.var[k + 1][m + 1] = <<"var", m, k, w>>]
                /\ m' = m + 1
                /\ UNCHANGED <<cfgvars, pc, k,
                               x, c, s, s0, w, w0, t0, t, ret, err, cand, calls, fvars, wvars>>
       \/ /\ m >= nsignal
          /\ pc' = IF 0 < k THEN "project" ELSE AfterProject
          /\ UNCHANGED <<cfgvars, k, m,
                         x, c, s, s0, w, w0, t0, t, res, ret, err, cand, calls, fvars, wvars>>

\* line 77: the column res.displacement[:, k - 1]
DispColumnCurrent == k + 1

DispColumn == k

\* lines 75-77: project the displacement onto the normal of s0 at t0
ProjectDisplacement ==
    /\ pc = "project"
    /\ \/ Raise("CorrespondenceError")
       \/ /\ res' = [res EXCEPT !.displacement[DispColumn] =
                                    <<"displacement", s0, s, t0, t>>]
          /\ calls' = Log("project", <<s0, s, t0, t>>)
          /\ pc' = AfterProject
          /\ UNCHANGED <<cfgvars, k, m,
                         x, c, s, s0, w, w0, t0, t, ret, err, cand, fvars, wvars>>

\* lines 80-90: if param.showWindows: if 0 < k: draw frame k-1
Artifact ==
    /\ pc = "artifact"
    /\ \/ /\ 0 < k
          /\ Raise("IOError")
       \/ /\ calls' = IF 0 < k THEN Log("show_edge_scatter", <<s0, s, t0, t>>)
                      ELSE calls
          /\ pc' = "keep"
          /\ UNCHANGED <<cfgvars, k, m,
                         x, c, s, s0, w, w0, t0, t, res, ret, err, cand, fvars, wvars>>

\* line 94: s0 = s
KeptCurveStale == IF 0 < k THEN s0 ELSE s

KeptCurve == s

\* lines 99-101: param0 and param grow only if 0 < k
AppendAlways(seq, v) == Append(seq, v)

AppendIfLater(seq, v) == IF 0 < k THEN Append(seq, v) ELSE seq

\* lines 93-101, and the loop's next iteration (line 41)
Keep ==
    /\ pc = "keep"
    /\ s0' = KeptCurve
    /\ w0' = w
    /\ res' = [res EXCEPT !.spline = Append(@, s),
                          !.param0 = AppendIfLater(@, t0),
                          !.param = AppendIfLater(@, t)]
    /\ k' = k + 1
    /\ pc' = ForNext(k + 1)
    /\ UNCHANGED <<cfgvars, m,
                   x, c, s, w, t0, t, ret, err, cand, calls, fvars, wvars>>

\* lines 104-109: close the artifacts; return res
Close ==
    /\ pc = "close"
    /\ ret' = <<res>>
    /\ pc' = "done"
    /\ UNCHANGED <<cfgvars, k, m,
                   x, c, s, s0, w, w0, t0, t, res, err, cand, calls, fvars, wvars>>

Next ==
    \/ Alloc \/ LoadFrame \/ Segment \/ FitSpline \/ ComputeLength
    \/ ComputeArea \/ FindOrigin \/ StartParams \/ MapContours2 \/ AssignT
    \/ RasterizeCurve \/ CreateWindows \/ ExtractSignals
    \/ ProjectDisplacement \/ Artifact \/ Keep \/ Close

Spec == Init /\ [][Next]_vars

(***************************************************************************)
(* DeepPaintWidget (morphodynamics/deep_paint_plugin/deep_paint.py)        *)
(*                                                                         *)
(* Each button handler runs to completion on the GUI thread, so a handler  *)
(* is one action; an exception raised in a handler ends it and keeps the   *)
(* assignments made before it.                                             *)
(***************************************************************************)
MaxSteps == 2   \* largest number of frames of the viewed image

Frames == 0..(wnsteps - 1)

\* lines 34-88: self.model = None; self.random_forest = None
WInit ==
    /\ wmodel = "None"
    /\ wforest = "None"
    /\ wfile \in {"absent", "None", "forest"}
    /\ wlayers = {}
    /\ wnsteps \in 1..MaxSteps
    /\ wstep = 0
    /\ wannot = {}
    /\ wpred = [i \in 1..wnsteps |-> FALSE]
    /\ wcalls = {}
    /\ forig = <<>> /\ fval = <<>> /\ fhist = <<>>
    /\ fp = <<>> /\ fcost = <<>>
    /\ AInitIdle

\* lines 217-221: self.model = nn.Sequential(vgg16.features[0])
load_nn_model == "vgg16"

\* lines 121-122, 163-164, 180-181: if self.model is None: self._load_nn_model()
EnsureModel == IF wmodel = "None" THEN load_nn_model ELSE wmodel

\* lines 118-157: the value of self.random_forest after update_model();
\* viewer.layers['annotations'] raises KeyError without that layer and
\* line 128 raises when no frame is annotated: random_forest is kept
update_model ==
    IF "annotations" \in wlayers /\ wannot # {} THEN "forest" ELSE wforest

UpdateModelRaises == "annotations" \notin wlayers \/ wannot = {}

\* the user moves the frame slider
SetStep ==
    /\ \E st \in Frames : wstep' = st
    /\ UNCHANGED <<wmodel, wforest, wfile, wlayers, wnsteps, wannot, wpred,
                   wcalls, fvars, avars>>

\* lines 102-111: add_annotation_layer
AddAnnotationLayer ==
    /\ wlayers' = wlayers \cup {"annotations", "prediction"}
    /\ UNCHANGED <<wmodel, wforest, wfile, wnsteps, wstep, wannot, wpred,
                   wcalls, fvars, avars>>

\* the user paints a label on a frame of the annotations layer
Annotate ==
    /\ "annotations" \in wlayers
    /\ \E fr \in Frames : wannot' = wannot \cup {fr}
    /\ UNCHANGED <<wmodel, wforest, wfile, wlayers, wnsteps, wstep, wpred,
                   wcalls, fvars, avars>>

\* lines 118-157: the Update model button
UpdateModel ==
    /\ wmodel' = EnsureModel
    /\ wforest' = update_model
    /\ UNCHANGED <<wfile, wlayers, wnsteps, wstep, wannot, wpred,
                   wcalls, fvars, avars>>

\* lines 159-174: the Predict single frame button
Predict ==
    /\ wmodel' = EnsureModel
    /\ \/ /\ wforest = "None"
          /\ UpdateModelRaises
          /\ UNCHANGED <<wforest, wfile, wlayers, wnsteps, wstep, wannot, wpred,
                         wcalls, fvars, avars>>
       \/ /\ wforest = "None" => ~UpdateModelRaises
          /\ wforest' = (IF wforest = "None" THEN update_model ELSE wforest)
          /\ wlayers' = wlayers \cup {"prediction"}
          /\ wcalls' = wcalls \cup {<<"predict", EnsureModel, wforest'>>}
          /\ wpred' = [wpred EXCEPT ![wstep + 1] = TRUE]
          /\ UNCHANGED <<wfile, wnsteps, wstep, wannot, fvars, avars>>

\* lines 176-188: the Predict all frames button; predict_image is given
\* self.random_forest as it is; with None it either raises on the first
\* frame or returns, and the loop goes on
PredictAll ==
    /\ wmodel' = EnsureModel
    /\ wlayers' = wlayers \cup {"prediction"}
    /\ wcalls' = wcalls \cup {<<"predict_all", EnsureModel, wforest>>}
    /\ \/ /\ wforest = "None"
          /\ wpred' = wpred
       \/ wpred' = [i \in 1..wnsteps |-> TRUE]
    /\ UNCHANGED <<wforest, wfile, wnsteps, wstep, wannot, fvars, avars>>

\* lines 199-206: dump(self.random_forest, save_file)
SaveModel ==
    /\ wfile' = wforest
    /\ UNCHANGED <<wmodel, wforest, wlayers, wnsteps, wstep, wannot, wpred,
                   wcalls, fvars, avars>>

\* lines 208-215: self.random_forest = load(save_file); load raises when
\* there is no file
LoadModel ==
    /\ wfile # "absent"
    /\ wforest' = wfile
    /\ UNCHANGED <<wmodel, wfile, wlayers, wnsteps, wstep, wannot, wpred,
                   wcalls, fvars, avars>>

WNext ==
    \/ SetStep \/ AddAnnotationLayer \/ Annotate \/ UpdateModel
    \/ Predict \/ PredictAll \/ SaveModel \/ LoadModel

WSpec == WInit /\ [][WNext]_vars

(***************************************************************************)
(* Properties of Functional (checked under FSpec)                          *)
(***************************************************************************)
RECURSIVE SumRange(_, _, _)
SumRange(r, lo, hi) == IF lo > hi THEN 0 ELSE r[lo] + SumRange(r, lo + 1, hi)

\* C1: for every raw parameter array o of length n >= 1,
\* inversetransform(transform(o)) equals o element by element.
C1_RoundTrip == (fhist = <<"T", "I">>) => fval = forig

C1_Witness ==
    /\ fhist = <<"T", "I">>
    /\ Len(forig) >= 3
    /\ forig[1] # forig[2]
    /\ forig[2] # forig[3]

\* C2 as stated: for every working array r of length n+1,
\* transform(inversetransform(r)) equals r.
C2_Original == (fhist = <<"I", "T">>) => fval = forig

\* C2 amended: transform is injective, but inversetransform ignores the last
\* slot r[n]: transform(inversetransform(r)) agrees with r on slots 0..n-1
\* and its last slot is -(r[1] + ... + r[n-1]), so it equals r only when
\* r[n] has that value, and working arrays that differ only in r[n] decode
\* to the same raw array.
C2_Amended ==
    LET n1 == Len(forig) IN
    /\ (fhist = <<"I", "T">>) =>
          /\ Len(fval) = n1
          /\ \A i \in 1..(n1 - 1) : fval[i] = forig[i]
          /\ fval[n1] = 0 - SumRange(forig, 2, n1 - 1)
          /\ (fval = forig) <=> (forig[n1] = 0 - SumRange(forig, 2, n1 - 1))
    /\ (fhist = <<"I">>) =>
          \A v \in Vals : inversetransform([forig EXCEPT ![n1] = v]) = fval
    /\ (fhist = <<"T">>) =>
          \A o2 \in [1..n1 -> Vals] : (transform(o2) = fval) => (o2 = forig)

C2_Witness ==
    /\ fhist = <<"I", "T">>
    /\ Len(forig) >= 3
    /\ fval # forig

(***************************************************************************)
(* Properties of Functional.f (checked under CSpec)                        *)
(***************************************************************************)
CountKind(kind) ==
    Cardinality({j \in DOMAIN fcost : fcost[j] # <<>> /\ fcost[j][1] = kind})

Evaluated == Len(fcost) > 0

\* C11 as stated: for n raw parameters the cost vector holds the 2n
\* geometric residuals, then n regularization residuals (one per
\* start-parameter spacing), plus one residual for the wrap segment, and
\* every slot holds one of these residuals.
C11_Original ==
    Evaluated =>
        LET n == Len(fp) IN
        /\ CountKind("geom") = 2 * n
        /\ CountKind("reg") = n
        /\ CountKind("wrap") = 1
        /\ \A j \in DOMAIN fcost : fcost[j] # <<>>

\* C11 amended: the cost vector has 3n slots: the 2n geometric residuals,
\* then n-1 regularization residuals, one per interior spacing
\* p[i]-p[i-1] (i = 1..n-1), then one residual for the wrap segment; the
\* wrap residual is the n-th regularization term, not an extra one; every
\* slot holds one of these residuals.
C11_Amended ==
    Evaluated =>
        LET n == Len(fp)
            o == inversetransform(forig)
        IN
        /\ Len(fcost) = 3 * n
        /\ \A j \in 1..n :
              /\ fcost[j] = <<"geom", 0, o[j], fp[j]>>
              /\ fcost[n + j] = <<"geom", 1, o[j], fp[j]>>
        /\ \A i \in 1..(n - 1) :
              fcost[2 * n + i] = <<"reg", i, o[i + 1] - o[i], fp[i + 1] - fp[i]>>
        /\ fcost[3 * n] = <<"wrap", 0, 1 + o[1] - o[n], 1 + fp[1] - fp[n]>>
        /\ CountKind("geom") = 2 * n
        /\ CountKind("reg") = n - 1
        /\ CountKind("wrap") = 1
        /\ \A j \in DOMAIN fcost : fcost[j] # <<>>

C11_Witness ==
    /\ Evaluated
    /\ Len(fp) >= 3
    /\ CountKind("reg") = Len(fp) - 1
    /\ fcost[2 * Len(fp) + 1][3] # 0
    /\ fcost[3 * Len(fp)][3] # 1

(***************************************************************************)
(* Properties of analyze_morphodynamics (checked under Spec)               *)
(***************************************************************************)
Count(fn, j) ==
    Cardinality({i \in DOMAIN calls : calls[i].fn = fn /\ calls[i].k = j})

\* the frame whose image a spline was fitted to
FrameOf(spl) == spl[2][2][2]

InFrame == pc \notin {"alloc", "close", "done", "aborted", "idle"}

\* C3: origin[0] is 0 in every state of a run and in the returned result,
\* whatever the frames contain.
C3_OriginZero ==
    /\ Len(res.orig) >= 1 => res.orig[1] = 0
    /\ Len(ret) = 1 => ret[1].orig[1] = 0

C3_Witness ==
    /\ pc = "done"
    /\ dataK >= 2
    /\ ret[1].orig[2] # 0
    /\ ret[1].spline[1] = <<"spline", <<"contour", <<"image", 0, 2>>>>>>

EstimationSteps == {"find_origin", "map_contours2", "project"}

\* C4: one linear pass whose only branch is k = 0: frame 0 runs no origin
\* estimation, no correspondence solve, no displacement projection and
\* appends nothing to param0/param; every frame k >= 1 runs each exactly
\* once; at the end of a run without failure spline has K entries, param0
\* and param K-1 each, and every displacement column was written once.
C4_LinearPass ==
    /\ \A fn \in EstimationSteps : Count(fn, 0) = 0
    /\ \A j \in 1..(dataK - 1) : \A fn \in EstimationSteps :
          /\ Count(fn, j) <= 1
          /\ (j < k => Count(fn, j) = 1)
    /\ Len(res.param0) = (IF k = 0 THEN 0 ELSE k - 1)
    /\ Len(res.param) = (IF k = 0 THEN 0 ELSE k - 1)
    /\ pc = "done" =>
          /\ Len(ret[1].spline) = dataK
          /\ Len(ret[1].param0) = dataK - 1
          /\ Len(ret[1].param) = dataK - 1
          /\ \A j \in 1..(dataK - 1) :
                /\ Count("project", j) = 1
                /\ ret[1].displacement[j] # Zero

C4_Witness ==
    /\ pc = "done"
    /\ dataK >= 3
    /\ Len(ret[1].param) = 2

\* C5: a component failure at frame k halts the run at frame k: no step of
\* a later frame runs and the failure is not swallowed; no frame is
\* skipped: a frame is processed only after all earlier frames completed.
C5_HaltOnFailure ==
    /\ (Len(err) = 1) <=> (pc = "aborted")
    /\ pc = "aborted" => k = err[1].k
    /\ \A i \in DOMAIN calls : calls[i].k <= k
    /\ (InFrame \/ pc = "aborted") => Len(res.spline) = k
    /\ \A j \in 0..(k - 1) :
          /\ Len(res.spline) > j
          /\ FrameOf(res.spline[j + 1]) = j
          /\ Count("create_windows", j) = 1

C5_Witness ==
    /\ pc = "aborted"
    /\ err[1].k = 1
    /\ dataK >= 3
    /\ Len(calls) > 0

\* C6 as stated: after an abort at frame k the results of frames 0..k-1
\* remain available to the caller.
C6_Original ==
    (pc = "aborted" /\ err[1].k >= 1) =>
        (Len(ret) = 1 /\ Len(ret[1].spline) = err[1].k)

\* C6 amended: when the run aborts at frame k the abort alters none of the
\* entries computed for frames 0..k-1 (the local res still holds them), but
\* res is returned only on normal completion: after an abort the caller
\* receives no result record.
C6_Amended ==
    pc = "aborted" =>
        /\ ret = <<>>
        /\ Len(res.spline) = err[1].k
        /\ Len(res.param) = (IF err[1].k = 0 THEN 0 ELSE err[1].k - 1)
        /\ \A j \in 1..err[1].k :
              /\ FrameOf(res.spline[j]) = j - 1
              /\ res.length[j] = <<"length", res.spline[j]>>
              /\ res.area[j] = <<"area", res.spline[j]>>
              /\ \A mm \in 1..nsignal : res.mean[j][mm] # Zero /\ res.var[j][mm] # Zero
              /\ j >= 2 => res.displacement[j - 1] # Zero

C6_Witness ==
    /\ pc = "aborted"
    /\ err[1].k = 2
    /\ Len(res.spline) = 2
    /\ ret = <<>>

InvalidConfig == dataK < 1 \/ paramI < 1 \/ paramJ < 1

\* C8 as stated: every invalid configuration (K < 1, I < 1 or J < 1) is
\* rejected before any frame is loaded, segmented or processed.
C8_Original == InvalidConfig => calls = <<>>

\* C8 amended: analyze_morphodynamics checks nothing itself; a configuration
\* is rejected before the frame loop only when it makes a dimension of a
\* result array negative (K < 1, I < 0 or J < 0), by the allocation
\* raising ValueError; I = 0 and J = 0 are not rejected there and frame 0 is
\* loaded.
C8_Amended ==
    /\ (dataK < 1 \/ paramI < 0 \/ paramJ < 0) =>
          /\ calls = <<>>
          /\ pc \in {"alloc", "aborted"}
          /\ pc = "aborted" =>
                err = <<[kind |-> "ValueError", k |-> 0, at |-> "alloc"]>>
    /\ (dataK >= 1 /\ paramI >= 0 /\ paramJ >= 0) =>
          /\ pc = "aborted" => err[1].at # "alloc"
          /\ pc \notin {"alloc", "aborted"} => Len(res.orig) = dataK

C8_Witness ==
    /\ paramI = 0
    /\ paramJ = 0
    /\ pc = "segment"
    /\ Count("load_frame_morpho", 0) = 1

IsPrefix(a, b) == Len(a) <= Len(b) /\ SubSeq(b, 1, Len(a)) = a

\* what a step taken while the loop variable is k leaves alone
WritesOnlyFrameK ==
    /\ \A j \in DOMAIN res.orig :
          (j # k + 1 \/ k = 0) => res'.orig[j] = res.orig[j]
    /\ \A j \in DOMAIN res.length : j # k + 1 => res'.length[j] = res.length[j]
    /\ \A j \in DOMAIN res.area : j # k + 1 => res'.area[j] = res.area[j]
    /\ \A j \in DOMAIN res.mean : j # k + 1 => res'.mean[j] = res.mean[j]
    /\ \A j \in DOMAIN res.var : j # k + 1 => res'.var[j] = res.var[j]
    /\ \A j \in DOMAIN res.displacement :
          j # k => res'.displacement[j] = res.displacement[j]
    /\ IsPrefix(res.spline, res'.spline)
    /\ IsPrefix(res.param0, res'.param0)
    /\ IsPrefix(res.param, res'.param)

\* C9: while processing frame k only length[k], area[k], orig[k] (k >= 1),
\* mean[:, :, :, k], var[:, :, :, k] and displacement[:, k-1] are written and
\* spline/param0/param only grow; every entry of a frame j < k, orig[j] in
\* particular, keeps the value it had when frame j finished.
C9_FrameWrites == [][WritesOnlyFrameK]_vars

C9_Witness ==
    /\ pc = "done"
    /\ dataK >= 3
    /\ res.orig[2] # 0
    /\ res.orig[3] # res.orig[2]
    /\ res.displacement[2] # Zero

\* C10: at every frame k >= 1 the previous curve passed to find_origin,
\* map_contours2 and the projection is the spline fitted at frame k-1, the
\* seed of find_origin is orig[k-1], t0 is built from orig[k-1] and the
\* initial t from the new orig[k]; orig[k] is computed before frame k is
\* rasterized with it, and s0 is replaced only after frame k has used it.
C10_DependencyChain ==
    /\ \A i \in DOMAIN calls :
        LET e == calls[i] IN
        /\ e.fn \in {"find_origin", "map_contours2", "project", "show_edge_scatter"} =>
              /\ e.k >= 1
              /\ FrameOf(e.args[1]) = e.k - 1
              /\ e.args[1] = res.spline[e.k]
              /\ FrameOf(e.args[2]) = e.k
        /\ e.fn = "find_origin" => e.args[3] = res.orig[e.k]
        /\ e.fn \in {"map_contours2", "project"} =>
              e.args[3] = ParamsAt(res.orig[e.k])
        /\ e.fn = "map_contours2" => e.args[4] = ParamsAt(res.orig[e.k + 1])
        /\ (e.fn = "rasterize_curve" /\ e.k >= 1) =>
              /\ \E j \in 1..(i - 1) :
                    calls[j].fn = "find_origin" /\ calls[j].k = e.k
              /\ e.args[2] = res.orig[e.k + 1]
              /\ FrameOf(e.args[1]) = e.k
    /\ (InFrame /\ k >= 1) => (s0 = res.spline[k] /\ FrameOf(s0) = k - 1)

C10_Witness ==
    /\ pc = "done"
    /\ dataK >= 3
    /\ res.orig[2] # res.orig[1]
    /\ res.orig[3] # res.orig[2]
    /\ Count("project", 2) = 1

(***************************************************************************)
(* Properties of DeepPaintWidget (checked under WSpec)                     *)
(***************************************************************************)
\* C12: at every call of predict_image made by predict or by predict_all,
\* neither self.model nor self.random_forest is None.
C12_PredictionHasModels ==
    \A cl \in wcalls : cl[2] # "None" /\ cl[3] # "None"

\* the part of C12 the code keeps: the calls made by predict, which
\* trains a classifier first when there is none (lines 165-166)
C12_PredictCallsSafe ==
    \A cl \in wcalls : cl[1] = "predict" => (cl[2] # "None" /\ cl[3] # "None")

====
